---------------------------- MODULE Spec2Model ----------------------------
(*************************************************************************)
(* A model of the ray tracer's integrator (ray_color) and of the frame   *)
(* loop of main (src/src/main.rs).                                       *)
(*                                                                       *)
(* Colors are triples of integers in units of 1/ColorUnit, chosen so     *)
(* that every product and interpolation the integrator forms within the  *)
(* depth bound is exact.                                                 *)
(*                                                                       *)
(* The modules camera, color, hittable, hittable_list, material, ray,    *)
(* sphere and vec3, and common::random_double, are not part of the       *)
(* sources at hand.  Their effect is modelled from the specification:    *)
(* a ray is represented by its fate, the sequence of segments it and its *)
(* scattered successors travel, each segment saying which object lies on *)
(* it (if any), at which ray parameter, the y component of its unit      *)
(* direction and whether a metal surface reflects it outwards.           *)
(*************************************************************************)
EXTENDS Integers, Sequences, FiniteSets

(*************************************************************************)
(* Bounds of the model.  In the source IMAGE_WIDTH = 1200,               *)
(* SAMPLES_PER_PIXEL = 500, MAX_DEPTH = 50 and the frame loop runs over  *)
(* 0..180.                                                               *)
(*************************************************************************)
IMAGE_WIDTH == 3

SAMPLES_PER_PIXEL == 2

MAX_DEPTH == 2

FRAMES == 2

\* Number of random tapes the model distinguishes.
NumSeeds == 4

\* Random doubles are k/JitterUnit, 0 <= k < JitterUnit: the range [0, 1).
JitterUnit == 2

(*************************************************************************)
(* Program constants.                                                    *)
(*************************************************************************)
\* ASPECT_RATIO = 3.0 / 2.0
ASPECT_NUM == 3

ASPECT_DEN == 2

\* (IMAGE_WIDTH as f64 / ASPECT_RATIO) as i32: the cast truncates.
IMAGE_HEIGHT == (IMAGE_WIDTH * ASPECT_DEN) \div ASPECT_NUM

\* The lower end 0.001 of the hit interval, in thousandths.
T_MIN == 1

\* common::INFINITY
INFINITY == "inf"

(*************************************************************************)
(* Colors.                                                               *)
(*************************************************************************)
RECURSIVE Pow(_, _)
Pow(b, n) == IF n = 0 THEN 1 ELSE b * Pow(b, n - 1)

\* One unit of a color channel is 1/ColorUnit.
ColorUnit == 20 * Pow(10, MAX_DEPTH)

\* Color::new(r, g, b) with the channels given in tenths.
Color(r, g, b) == <<(r * ColorUnit) \div 10, (g * ColorUnit) \div 10, (b * ColorUnit) \div 10>>

Black == Color(0, 0, 0)

White == Color(10, 10, 10)

SkyBlue == Color(5, 7, 10)

\* Color * Color: the componentwise product.
Mul(a, b) == [k \in 1..3 |-> (a[k] * b[k]) \div ColorUnit]

\* Color + Color
Add(a, b) == [k \in 1..3 |-> a[k] + b[k]]

(*************************************************************************)
(* The world and the rays.                                               *)
(*************************************************************************)
NoObj == "none"

\* The kinds of sphere random_scene puts into the world.
Objects == {"Lambertian", "Metal", "Dielectric"}

\* The world random_scene returns: spheres of all three materials.
random_scene == Objects

\* The segments a ray's fate is made of, in a fixed order.
SegSeq ==
    << [obj |-> NoObj, t |-> 0, y |-> -1, reflects |-> TRUE],
       [obj |-> NoObj, t |-> 0, y |-> 0, reflects |-> TRUE],
       [obj |-> NoObj, t |-> 0, y |-> 1, reflects |-> TRUE],
       [obj |-> "Lambertian", t |-> 500, y |-> 0, reflects |-> TRUE],
       [obj |-> "Metal", t |-> 500, y |-> 0, reflects |-> TRUE],
       [obj |-> "Metal", t |-> 500, y |-> 0, reflects |-> FALSE],
       [obj |-> "Dielectric", t |-> 500, y |-> 0, reflects |-> TRUE],
       [obj |-> "Lambertian", t |-> 0, y |-> 0, reflects |-> TRUE],
       [obj |-> "Metal", t |-> 0, y |-> 0, reflects |-> TRUE],
       [obj |-> "Metal", t |-> 0, y |-> 0, reflects |-> FALSE],
       [obj |-> "Dielectric", t |-> 0, y |-> 0, reflects |-> TRUE] >>

NumSegs == Len(SegSeq)

Segments == {SegSeq[k] : k \in 1..NumSegs}

\* The rays whose fate is n segments long.
Rays(n) == [1..n -> Segments]

\* The n-th ray of Rays(MAX_DEPTH), n >= 0.
RayOf(n) == [k \in 1..MAX_DEPTH |-> SegSeq[((n \div Pow(NumSegs, k - 1)) % NumSegs) + 1]]

None == [some |-> FALSE]

\* Whether t (thousandths) lies strictly inside (t_min, t_max).
InInterval(t, t_min, t_max) == t_min < t /\ (t_max = INFINITY \/ t < t_max)

\* HittableList::hit: the nearest hit of a member of the world inside the
\* interval, or none.  An empty world hits nothing.
hit(world, r, t_min, t_max) ==
    IF /\ r # <<>>
       /\ r[1].obj \in world
       /\ InInterval(r[1].t, t_min, t_max)
    THEN [some |-> TRUE, mat |-> r[1].obj, t |-> r[1].t]
    ELSE None

\* The albedo of the materials random_scene builds.
Albedo(mat) ==
    CASE mat = "Lambertian" -> Color(5, 5, 5)
      [] mat = "Metal" -> Color(7, 6, 5)
      [] OTHER -> White

\* Material::scatter: a diffuse or a glass surface always scatters, a metal
\* one absorbs the ray when the fuzzed reflection points into the surface.
scatter(mat, r, hit_rec) ==
    IF mat = "Metal" /\ ~r[1].reflects
    THEN None
    ELSE [some |-> TRUE, attenuation |-> Albedo(mat), scattered |-> Tail(r)]

\* vec3::unit_vector(r.direction()).y(); a ray with no segment left is level.
unit_direction_y(r) == IF r = <<>> THEN 0 ELSE r[1].y

(*************************************************************************)
(* ray_color                                                             *)
(*************************************************************************)
\* A gradient with its two ends exchanged.
backgroundSwapped(r) ==
    LET t2 == unit_direction_y(r) + 1
    IN  [k \in 1..3 |-> (t2 * White[k] + (2 - t2) * SkyBlue[k]) \div 2]

\* The background gradient: t = 0.5 * (unit_direction.y() + 1.0), then
\* (1.0 - t) * white + t * blue.  t2 is 2 * t.
background(r) ==
    LET t2 == unit_direction_y(r) + 1
    IN  [k \in 1..3 |-> ((2 - t2) * White[k] + t2 * SkyBlue[k]) \div 2]

\* A bounce limit that tests for zero alone.
DepthExceededOnlyAtZero(depth) == depth = 0

\* A bounce limit that is off by one.
DepthExceededBelowZero(depth) == depth < 0

\* The bounce limit is exceeded.
DepthExceeded(depth) == depth <= 0

\* The lower end of the interval ray_color passes to world.hit.
HitTMin == T_MIN

\* The depth ray_color passes to its recursive call.
BounceDepth(depth) == depth - 1

\* An absorbed path that is given the light of the sky.
AbsorbedAsSky == White

\* What a path contributes when the material absorbs it.
Absorbed == Black

\* The attenuation alone, the light gathered further on being dropped.
AttenuationOnly(attenuation, c) == attenuation

\* attenuation * ray_color(scattered, ...)
Attenuate(attenuation, c) == Mul(attenuation, c)

\* One activation of ray_color, as the trace records it.
Activation(depth, h, interval, mat, s, attenuation, ret) ==
    [depth |-> depth, hit |-> h, interval |-> interval, mat |-> mat,
     scatter |-> s, attenuation |-> attenuation, ret |-> ret]

(*************************************************************************)
(* ray_color(r, world, depth) yields the sequence of its activations,    *)
(* outermost first: element 1 is the call itself and its ret the color   *)
(* returned, element n + 1 the recursive call that element n made.       *)
(* Each activation records the depth it got, whether it called           *)
(* world.hit (with which interval) and scatter, and with what outcome.   *)
(*************************************************************************)
RECURSIVE ray_color(_, _, _)
ray_color(r, world, depth) ==
    IF DepthExceeded(depth)
    THEN << Activation(depth, "notcalled", <<>>, NoObj, "notcalled", Black, Black) >>
    ELSE LET interval == <<HitTMin, INFINITY>>
             hit_rec == hit(world, r, interval[1], interval[2])
         IN  IF hit_rec.some
             THEN LET scatter_rec == scatter(hit_rec.mat, r, hit_rec)
                  IN  IF scatter_rec.some
                      THEN LET rest == ray_color(scatter_rec.scattered, world, BounceDepth(depth))
                           IN  << Activation(depth, "some", interval, hit_rec.mat, "some",
                                             scatter_rec.attenuation,
                                             Attenuate(scatter_rec.attenuation, rest[1].ret)) >>
                               \o rest
                      ELSE << Activation(depth, "some", interval, hit_rec.mat, "none",
                                         Black, Absorbed) >>
             ELSE << Activation(depth, "none", interval, NoObj, "notcalled",
                                Black, background(r)) >>

\* The color a call returns.
Returned(trace) == trace[1].ret

(*************************************************************************)
(* The random source, the camera and the output of main.                 *)
(*************************************************************************)
\* The random state sample s of pixel (i, j) of the frame at camera angle f
\* starts from, on the random tape sd.
random_state(sd, f, i, j, s) == 7 * sd + 3 * f + 5 * i + 11 * j + 13 * s

\* common::random_double(), the k-th draw from random state h, in units of
\* 1/JitterUnit: a value of [0, 1).
random_double(h, k) == (h \div Pow(JitterUnit, k)) % JitterUnit

\* Camera::new for the frame's lookfrom, which lies at angle frame *
\* angle_per_frame on the orbit.
Camera_new(frame) == [angle |-> frame]

\* Camera::get_ray(u, v): the ray through (u, v), and with it its fate in the
\* world, decided by the camera, the point and the random draws that follow.
get_ray(cam, u, v, h) ==
    RayOf((37 * h + 5 * u[1] + 3 * v[1] + cam.angle) % Pow(NumSegs, MAX_DEPTH))

\* (x as f64 + jitter) / (n - 1) as f64, as <<numerator, denominator>>.
Normalized(x, jitter, n) == <<x * JitterUnit + jitter, (n - 1) * JitterUnit>>

\* The decimal digits of n, zero-padded to three ({:03}), for n < 1000.
Digits3(n) == <<(n \div 100) % 10, (n \div 10) % 10, n % 10>>

\* A file name that leaves out the frame number.
filenameOfFrameZero(frame) == <<"out/frame_", Digits3(0), ".ppm">>

\* format!("out/frame_{:03}.ppm", frame)
filename(frame) == <<"out/frame_", Digits3(frame), ".ppm">>

\* The rows in ascending order.
RowsAscending == [k \in 1..IMAGE_HEIGHT |-> k - 1]

\* (0..IMAGE_HEIGHT).rev(): the rows in the order the loop visits them.
Rows == [k \in 1..IMAGE_HEIGHT |-> IMAGE_HEIGHT - k]

\* An assignment in place of the sum.
AccumulateOverwrite(pixel_color, c) == c

\* pixel_color += c
Accumulate(pixel_color, c) == Add(pixel_color, c)

NoResult == [filled |-> FALSE]

\* A collection that takes the results in the order the tasks finish.
CollectIndexByArrival(i, res) == Cardinality({k \in DOMAIN res : res[k].filled}) + 1

\* The place in the collected vector of the result for item i of the indexed
\* parallel iterator: collect keeps the order of the items.
CollectIndex(i, res) == i + 1

(*************************************************************************)
(* State.                                                                *)
(*************************************************************************)
VARIABLES
    rc_pc,        \* "ready": ray_color is about to be called, "returned": it
                  \* has returned, "idle": main runs instead
    rc_ray,       \* the ray, the world and the depth of the call
    rc_world,
    rc_depth,
    rc_trace,     \* the activations of the call, <<>> before it
    pc,           \* where main stands: "loop", "row", "pixels", "write", "done"
    seed,         \* the random tape of the run
    world,        \* the world main built
    frame,        \* the frame loop's variable
    cam,          \* the camera of the frame
    cams,         \* the cameras constructed so far, in order
    files,        \* the files under out/, by name
    writer,       \* the BufWriter of the frame: its file's name and content
    row,          \* the position of the row loop in Rows
    tasks,        \* the parallel tasks of the row, one per column
    results,      \* the collection the tasks' results go to
    pixel_colors, \* the collected vector
    wi,           \* the position of the writing loop in pixel_colors
    pass,         \* 1, or 2 when the frame is rendered a second time
    prevOut       \* the pixels the first rendering wrote

rcVars == <<rc_pc, rc_ray, rc_world, rc_depth, rc_trace>>

mainVars == <<pc, seed, world, frame, cam, cams, files, writer, row, tasks,
              results, pixel_colors, wi, pass, prevOut>>

vars == <<rcVars, mainVars>>

Columns == 0..(IMAGE_WIDTH - 1)

NoCam == [angle |-> -1]

NoWriter == [name |-> <<>>, header |-> <<>>, pixels |-> <<>>]

IdleTask == [st |-> "idle", pixel_color |-> Black, n |-> 0, u |-> <<0, 1>>,
             v |-> <<0, 1>>, cam |-> NoCam, depth |-> 0]

\* main before its frame loop, with random_scene's world built.
MainStart ==
    /\ pc = "loop"
    /\ world = random_scene
    /\ cam = NoCam
    /\ cams = <<>>
    /\ files = <<>>
    /\ writer = NoWriter
    /\ row = 0
    /\ tasks = [i \in Columns |-> IdleTask]
    /\ results = [k \in 1..IMAGE_WIDTH |-> NoResult]
    /\ pixel_colors = <<>>
    /\ wi = 0
    /\ pass = 1
    /\ prevOut = <<>>

RcIdle ==
    /\ rc_pc = "idle"
    /\ rc_ray = <<>>
    /\ rc_world = {}
    /\ rc_depth = 0
    /\ rc_trace = <<>>

\* The depths ray_color is called with.
Depths == -1..MAX_DEPTH

RayInit ==
    /\ rc_pc = "ready"
    /\ rc_ray \in Rays(MAX_DEPTH)
    /\ rc_world \in SUBSET Objects
    /\ rc_depth \in Depths
    /\ rc_trace = <<>>
    /\ seed = 0
    /\ frame = 0
    /\ MainStart

\* One call of ray_color, from entry to return.
CallRayColor ==
    /\ rc_pc = "ready"
    /\ rc_trace' = ray_color(rc_ray, rc_world, rc_depth)
    /\ rc_pc' = "returned"
    /\ UNCHANGED <<rc_ray, rc_world, rc_depth, mainVars>>

RayNext == CallRayColor

SpecRay == RayInit /\ [][RayNext]_vars

(*************************************************************************)
(* main                                                                  *)
(*************************************************************************)
Init ==
    /\ RcIdle
    /\ seed \in 0..(NumSeeds - 1)
    /\ frame = 0
    /\ MainStart

\* File::create: the file exists and is empty, whatever it held.
Create(fs, name) ==
    [n \in DOMAIN fs \cup {name} |->
        IF n = name THEN [header |-> <<>>, pixels |-> <<>>] ELSE fs[n]]

\* The BufWriter is dropped: what it was handed is in its file.
Flush(fs, w) ==
    [n \in DOMAIN fs |->
        IF n = w.name THEN [header |-> w.header, pixels |-> w.pixels] ELSE fs[n]]

\* The head of the frame loop's body: the camera of the frame, the output
\* file and its header.
BeginFrame ==
    /\ pc = "loop"
    /\ frame < FRAMES
    /\ cam' = Camera_new(frame)
    /\ cams' = Append(cams, Camera_new(frame))
    /\ files' = Create(files, filename(frame))
    /\ writer' = [name |-> filename(frame),
                  header |-> <<"P3", IMAGE_WIDTH, IMAGE_HEIGHT, 255>>,
                  pixels |-> <<>>]
    /\ row' = 1
    /\ pc' = "row"
    /\ UNCHANGED <<rcVars, seed, world, frame, tasks, results, pixel_colors, wi,
                   pass, prevOut>>

\* The row loop enters its body: the parallel iterator over the columns.
BeginRow ==
    /\ pc = "row"
    /\ row <= IMAGE_HEIGHT
    /\ tasks' = [i \in Columns |-> [IdleTask EXCEPT !.st = "pending"]]
    /\ results' = [k \in 1..IMAGE_WIDTH |-> NoResult]
    /\ pc' = "pixels"
    /\ UNCHANGED <<rcVars, seed, world, frame, cam, cams, files, writer, row,
                   pixel_colors, wi, pass, prevOut>>

\* A worker takes up column i: let mut pixel_color = (0, 0, 0).
PixelStart(i) ==
    /\ pc = "pixels"
    /\ tasks[i].st = "pending"
    /\ tasks' = [tasks EXCEPT ![i].st = "running", ![i].pixel_color = Black,
                              ![i].n = 0]
    /\ UNCHANGED <<rcVars, pc, seed, world, frame, cam, cams, files, writer, row,
                   results, pixel_colors, wi, pass, prevOut>>

\* One pass of the sample loop of column i.
PixelSample(i) ==
    /\ pc = "pixels"
    /\ tasks[i].st = "running"
    /\ tasks[i].n < SAMPLES_PER_PIXEL
    /\ LET j == Rows[row]
           h == random_state(seed, cam.angle, i, j, tasks[i].n)
           u == Normalized(i, random_double(h, 0), IMAGE_WIDTH)
           v == Normalized(j, random_double(h, 1), IMAGE_HEIGHT)
           r == get_ray(cam, u, v, h)
           c == Returned(ray_color(r, world, MAX_DEPTH))
       IN  tasks' = [tasks EXCEPT
                        ![i].pixel_color = Accumulate(tasks[i].pixel_color, c),
                        ![i].n = tasks[i].n + 1,
                        ![i].u = u,
                        ![i].v = v,
                        ![i].cam = cam,
                        ![i].depth = MAX_DEPTH]
    /\ UNCHANGED <<rcVars, pc, seed, world, frame, cam, cams, files, writer, row,
                   results, pixel_colors, wi, pass, prevOut>>

\* The closure of column i returns pixel_color to the collection.
PixelReturn(i) ==
    /\ pc = "pixels"
    /\ tasks[i].st = "running"
    /\ tasks[i].n >= SAMPLES_PER_PIXEL
    /\ tasks' = [tasks EXCEPT ![i].st = "done"]
    /\ results' = [results EXCEPT ![CollectIndex(i, results)] =
                      [filled |-> TRUE, i |-> i, j |-> Rows[row],
                       angle |-> tasks[i].cam.angle,
                       color |-> tasks[i].pixel_color]]
    /\ UNCHANGED <<rcVars, pc, seed, world, frame, cam, cams, files, writer, row,
                   pixel_colors, wi, pass, prevOut>>

\* Every closure of the row has returned.
AllReturned == \A i \in Columns : tasks[i].st = "done"

\* collect() returns the vector once every item is in.
Collect ==
    /\ pc = "pixels"
    /\ AllReturned
    /\ pixel_colors' = results
    /\ wi' = 1
    /\ pc' = "write"
    /\ UNCHANGED <<rcVars, seed, world, frame, cam, cams, files, writer, row,
                   tasks, results, pass, prevOut>>

\* One pass of the writing loop: write_color(&mut writer, pixel_color, ...).
WriteColor ==
    /\ pc = "write"
    /\ wi <= Len(pixel_colors)
    /\ writer' = [writer EXCEPT !.pixels = Append(writer.pixels, pixel_colors[wi])]
    /\ wi' = wi + 1
    /\ UNCHANGED <<rcVars, pc, seed, world, frame, cam, cams, files, row, tasks,
                   results, pixel_colors, pass, prevOut>>

\* The writing loop is over: on to the next row.
EndRow ==
    /\ pc = "write"
    /\ wi > Len(pixel_colors)
    /\ row' = row + 1
    /\ pc' = "row"
    /\ UNCHANGED <<rcVars, seed, world, frame, cam, cams, files, writer, tasks,
                   results, pixel_colors, wi, pass, prevOut>>

\* The row loop is over: the writer is dropped and the frame loop goes on.
EndFrame ==
    /\ pc = "row"
    /\ row > IMAGE_HEIGHT
    /\ files' = Flush(files, writer)
    /\ writer' = NoWriter
    /\ frame' = frame + 1
    /\ pc' = "loop"
    /\ UNCHANGED <<rcVars, seed, world, cam, cams, row, tasks, results,
                   pixel_colors, wi, pass, prevOut>>

Next ==
    \/ BeginFrame
    \/ BeginRow
    \/ \E i \in Columns : PixelStart(i)
    \/ \E i \in Columns : PixelSample(i)
    \/ \E i \in Columns : PixelReturn(i)
    \/ Collect
    \/ WriteColor
    \/ EndRow
    \/ EndFrame

Spec == Init /\ [][Next]_vars

(*************************************************************************)
(* One frame rendered twice, with the same world, camera and random tape. *)
(*************************************************************************)
TwiceInit ==
    /\ RcIdle
    /\ seed \in 0..(NumSeeds - 1)
    /\ frame \in 0..(FRAMES - 1)
    /\ MainStart

\* The first rendering is over: its output is kept and the frame is
\* rendered again.
Rerender ==
    /\ pc = "row"
    /\ row > IMAGE_HEIGHT
    /\ pass = 1
    /\ files' = Flush(files, writer)
    /\ prevOut' = writer.pixels
    /\ writer' = NoWriter
    /\ pass' = 2
    /\ pc' = "loop"
    /\ UNCHANGED <<rcVars, seed, world, frame, cam, cams, row, tasks, results,
                   pixel_colors, wi>>

\* The second rendering is over.
EndSecond ==
    /\ pc = "row"
    /\ row > IMAGE_HEIGHT
    /\ pass = 2
    /\ files' = Flush(files, writer)
    /\ writer' = NoWriter
    /\ pc' = "done"
    /\ UNCHANGED <<rcVars, seed, world, frame, cam, cams, row, tasks, results,
                   pixel_colors, wi, pass, prevOut>>

TwiceNext ==
    \/ BeginFrame
    \/ BeginRow
    \/ \E i \in Columns : PixelStart(i)
    \/ \E i \in Columns : PixelSample(i)
    \/ \E i \in Columns : PixelReturn(i)
    \/ Collect
    \/ WriteColor
    \/ EndRow
    \/ Rerender
    \/ EndSecond

SpecTwice == TwiceInit /\ [][TwiceNext]_vars

(*************************************************************************)
(* Properties of ray_color, checked under SpecRay.                       *)
(*************************************************************************)
\* The activations of the finished call that called world.hit, and scatter.
HitCalls == {n \in 1..Len(rc_trace) : rc_trace[n].hit # "notcalled"}

ScatterCalls == {n \in 1..Len(rc_trace) : rc_trace[n].scatter # "notcalled"}

\* The segment the n-th activation's ray travels would meet an object of the
\* world at a parameter above 0.001.
MeetsObject(n) ==
    /\ n <= Len(rc_ray)
    /\ rc_ray[n].obj \in rc_world
    /\ rc_ray[n].t > 1

\* (1-t)*(1,1,1) + t*(0.5,0.7,1.0) for t = 0.5*(y+1), y in {-1, 0, 1}, in
\* units of 1/ColorUnit.
Gradient(y) ==
    CASE y = -1 -> <<ColorUnit, ColorUnit, ColorUnit>>
      [] y = 0 -> <<(3 * ColorUnit) \div 4, (17 * ColorUnit) \div 20, ColorUnit>>
      [] y = 1 -> <<ColorUnit \div 2, (7 * ColorUnit) \div 10, ColorUnit>>

\* C1: a call with depth <= 0 returns exactly (0,0,0), for every ray and
\* every world, and calls neither world.hit nor scatter.
C1_BlackAtDepthLimit ==
    (rc_pc = "returned" /\ rc_depth <= 0) =>
        /\ Returned(rc_trace) = <<0, 0, 0>>
        /\ HitCalls = {}
        /\ ScatterCalls = {}
        /\ Len(rc_trace) = 1

\* C1 witness: a call with depth <= 0 has returned for a ray that an object
\* of a non-empty world lies on.
C1_Witness ==
    /\ rc_pc = "returned"
    /\ rc_depth <= 0
    /\ MeetsObject(1)

\* C2 as stated: in a world with no object ray_color is the background
\* gradient of the ray, whatever the depth.
C2_GradientAnyDepth ==
    (rc_pc = "returned" /\ rc_world = {}) =>
        Returned(rc_trace) = Gradient(rc_ray[1].y)

\* C2 amended: in a world with no object and with depth > 0, ray_color is the
\* background gradient of the ray (with depth <= 0 it is black).
C2_GradientPositiveDepth ==
    (rc_pc = "returned" /\ rc_world = {}) =>
        Returned(rc_trace) =
            IF rc_depth > 0 THEN Gradient(rc_ray[1].y) ELSE <<0, 0, 0>>

\* C2 witness: a call with depth > 0 in the empty world has returned with the
\* gradient of a level ray, for a ray that would meet a sphere were there one.
C2_Witness ==
    /\ rc_pc = "returned"
    /\ rc_world = {}
    /\ rc_depth > 0
    /\ rc_ray[1].obj = "Lambertian"
    /\ rc_ray[1].t = 500
    /\ Returned(rc_trace) = <<(3 * ColorUnit) \div 4, (17 * ColorUnit) \div 20, ColorUnit>>

\* C3: every call returns a color; for depth D >= 0 it makes at most D calls
\* of world.hit and at most D of scatter, nests at most D+1 activations, and
\* each recursive activation gets the depth of its caller minus one.
C3_BoundedByDepth ==
    /\ rc_pc = "ready" => ENABLED CallRayColor
    /\ rc_pc = "returned" =>
        /\ Len(rc_trace) >= 1
        /\ \A k \in 1..3 : Returned(rc_trace)[k] \in 0..ColorUnit
        /\ rc_trace[1].depth = rc_depth
        /\ \A n \in 1..(Len(rc_trace) - 1) : rc_trace[n + 1].depth = rc_trace[n].depth - 1
        /\ rc_depth >= 0 =>
            /\ Cardinality(HitCalls) <= rc_depth
            /\ Cardinality(ScatterCalls) <= rc_depth
            /\ Len(rc_trace) <= rc_depth + 1

\* C3 witness: a call with depth MAX_DEPTH >= 2 has returned after scattering
\* at every level down to depth 0.
C3_Witness ==
    /\ rc_pc = "returned"
    /\ rc_depth = MAX_DEPTH
    /\ rc_depth >= 2
    /\ Cardinality(ScatterCalls) = rc_depth
    /\ Len(rc_trace) = rc_depth + 1

\* C5: with depth = 1 every ray that hits an object yields (0,0,0), whether
\* its material scatters or absorbs; so does the ray that hits the diffuse
\* sphere at t = 0.5.
C5_BlackAtDepthOne ==
    (rc_pc = "returned" /\ rc_depth = 1 /\ MeetsObject(1)) =>
        /\ rc_trace[1].hit = "some"
        /\ Returned(rc_trace) = <<0, 0, 0>>

\* C5 witness: the call with depth 1 has returned for the world of one
\* diffuse sphere and a ray hitting it at t = 0.5; the material scattered
\* with its albedo as attenuation.
C5_Witness ==
    /\ rc_pc = "returned"
    /\ rc_depth = 1
    /\ rc_world = {"Lambertian"}
    /\ rc_ray[1].obj = "Lambertian"
    /\ rc_ray[1].t = 500
    /\ rc_trace[1].scatter = "some"
    /\ rc_trace[1].attenuation = <<ColorUnit \div 2, ColorUnit \div 2, ColorUnit \div 2>>
    /\ Len(rc_trace) = 2

\* C8: every activation with depth > 0 tests the world with the interval
\* (0.001, +infinity).  On a hit whose material scatters it returns the
\* attenuation times, componentwise, the color of the recursive activation,
\* which gets depth - 1; on a hit whose material absorbs it returns (0,0,0)
\* and recurses no further; the gradient is returned only without a hit.
C8_HitBranch ==
    rc_pc = "returned" =>
        \A n \in 1..Len(rc_trace) :
            LET a == rc_trace[n]
            IN  a.depth > 0 =>
                    /\ a.hit # "notcalled"
                    /\ a.interval = <<1, "inf">>
                    /\ a.hit = "some" <=> MeetsObject(n)
                    /\ (a.hit = "some" /\ a.scatter = "some") =>
                           /\ n < Len(rc_trace)
                           /\ rc_trace[n + 1].depth = a.depth - 1
                           /\ a.ret = [k \in 1..3 |->
                                  (a.attenuation[k] * rc_trace[n + 1].ret[k]) \div ColorUnit]
                    /\ (a.hit = "some" /\ a.scatter # "some") =>
                           /\ a.scatter = "none"
                           /\ a.ret = <<0, 0, 0>>
                           /\ n = Len(rc_trace)
                    /\ a.hit = "none" =>
                           /\ a.scatter = "notcalled"
                           /\ a.ret = Gradient(rc_ray[n].y)
                           /\ n = Len(rc_trace)

\* C8 witness: a call has returned in which a hit scattered into a second
\* hit that was absorbed, and one in which light came back from the sky
\* through a scattering surface.
C8_Witness ==
    /\ rc_pc = "returned"
    /\ Len(rc_trace) >= 2
    /\ rc_trace[1].scatter = "some"
    /\ rc_trace[2].hit = "none"
    /\ rc_trace[1].mat = "Metal"
    /\ Returned(rc_trace) # <<0, 0, 0>>
    /\ Returned(rc_trace) # rc_trace[2].ret

\* C8 second witness: a metal surface absorbed the path at the second level.
C8_WitnessAbsorbed ==
    /\ rc_pc = "returned"
    /\ Len(rc_trace) = 2
    /\ rc_trace[2].hit = "some"
    /\ rc_trace[2].scatter = "none"

(*************************************************************************)
(* Properties of main's frame loop, checked under Spec and SpecTwice.    *)
(*************************************************************************)
\* The pixel the k-th value of a frame's output must be for, in row-major
\* order from the top row IMAGE_HEIGHT-1 down, each row from column 0 up.
RowMajorColumn(k) == (k - 1) % IMAGE_WIDTH

RowMajorRow(k) == IMAGE_HEIGHT - 1 - ((k - 1) \div IMAGE_WIDTH)

InRowMajorOrder(pixels) ==
    \A k \in 1..Len(pixels) :
        /\ pixels[k].filled
        /\ pixels[k].i = RowMajorColumn(k)
        /\ pixels[k].j = RowMajorRow(k)

\* C4: the values handed to the frame's writer are those of the pixels in
\* row-major order, top row first, column 0 first, none twice and none
\* skipped; when the row loop is over they are IMAGE_WIDTH * IMAGE_HEIGHT.
C4_RowMajorOutput ==
    /\ InRowMajorOrder(writer.pixels)
    /\ pc = "write" => Len(writer.pixels) = (row - 1) * IMAGE_WIDTH + (wi - 1)
    /\ pc \in {"row", "pixels"} => Len(writer.pixels) = (row - 1) * IMAGE_WIDTH
    /\ (pc = "row" /\ row > IMAGE_HEIGHT) =>
           Len(writer.pixels) = IMAGE_WIDTH * IMAGE_HEIGHT
    /\ \A n \in DOMAIN files :
           /\ InRowMajorOrder(files[n].pixels)
           /\ Len(files[n].pixels) \in {0, IMAGE_WIDTH * IMAGE_HEIGHT}

\* C4 witness: the last row of a frame is being written, after its tasks
\* finished in an order other than that of the columns.
C4_Witness ==
    /\ pc = "write"
    /\ row = IMAGE_HEIGHT
    /\ wi > IMAGE_WIDTH
    /\ Len(writer.pixels) = IMAGE_WIDTH * IMAGE_HEIGHT
    /\ writer.pixels[1].j = IMAGE_HEIGHT - 1
    /\ writer.pixels[IMAGE_WIDTH * IMAGE_HEIGHT].j = 0
    /\ writer.pixels[1].color # writer.pixels[2].color

\* The colors of a sequence of written pixels.
ColorsOf(pixels) == [k \in 1..Len(pixels) |-> pixels[k].color]

\* C6: two renderings of one frame with the same random tape per pixel
\* write the same pixel values in the same order, however the tasks of a
\* row are scheduled.
C6_SameOutputTwice ==
    (pc = "done" /\ pass = 2) =>
        /\ Len(prevOut) = IMAGE_WIDTH * IMAGE_HEIGHT
        /\ ColorsOf(files[filename(frame)].pixels) = ColorsOf(prevOut)

\* C6 witness: the second rendering is over, and the frame has two pixels
\* of different value in one row.
C6_Witness ==
    /\ pc = "done"
    /\ pass = 2
    /\ Len(prevOut) = IMAGE_WIDTH * IMAGE_HEIGHT
    /\ prevOut[1].color # prevOut[2].color
    /\ prevOut[1].color # <<0, 0, 0>>

\* The output of frame f is complete: its file holds the value of every
\* pixel, each computed with frame f's camera.
FrameWritten(f) ==
    /\ <<"out/frame_", <<(f \div 100) % 10, (f \div 10) % 10, f % 10>>, ".ppm">>
           \in DOMAIN files
    /\ LET out == files[<<"out/frame_", <<(f \div 100) % 10, (f \div 10) % 10, f % 10>>, ".ppm">>]
       IN  /\ Len(out.pixels) = IMAGE_WIDTH * IMAGE_HEIGHT
           /\ \A k \in 1..Len(out.pixels) : out.pixels[k].angle = f

\* Nothing of frame f has happened yet: no camera, no file.
FrameUntouched(f) ==
    /\ <<"out/frame_", <<(f \div 100) % 10, (f \div 10) % 10, f % 10>>, ".ppm">>
           \notin DOMAIN files
    /\ \A k \in 1..Len(cams) : cams[k].angle # f

\* C7: the frames are rendered one after the other in the order of their
\* index: while frame f is at work every earlier frame's output is completely
\* written, no later frame has a camera or a file, every sample of a running
\* task uses the camera of frame f, which was built for it alone, and the
\* writer is that of frame f's own file.
C7_FramesInSequence ==
    /\ frame \in 0..FRAMES
    /\ \A f \in 0..(FRAMES - 1) :
           /\ f < frame => FrameWritten(f)
           /\ f > frame => FrameUntouched(f)
    /\ Len(cams) = IF pc = "loop" THEN frame ELSE frame + 1
    /\ \A k \in 1..Len(cams) : cams[k].angle = k - 1
    /\ pc # "loop" =>
           /\ cam.angle = frame
           /\ writer.name[2] = <<(frame \div 100) % 10, (frame \div 10) % 10, frame % 10>>
           /\ pc \in {"pixels", "write"} =>
                  \A i \in Columns : tasks[i].n > 0 => tasks[i].cam.angle = frame
           /\ \A k \in 1..Len(writer.pixels) : writer.pixels[k].angle = frame

\* C7 witness: the second frame is being sampled with the first one's output
\* complete.
C7_Witness ==
    /\ frame = 1
    /\ pc = "pixels"
    /\ \E i \in Columns : tasks[i].n > 0
    /\ FrameWritten(0)

\* The color sample s of pixel (i, j) adds under the frame's camera: that of
\* ray_color for the ray through the jittered point.
SampleColor(i, j, s) ==
    LET h == 7 * seed + 3 * frame + 5 * i + 11 * j + 13 * s
        u == <<i * JitterUnit + (h % JitterUnit), (IMAGE_WIDTH - 1) * JitterUnit>>
        v == <<j * JitterUnit + ((h \div JitterUnit) % JitterUnit),
               (IMAGE_HEIGHT - 1) * JitterUnit>>
    IN  Returned(ray_color(get_ray([angle |-> frame], u, v, h),
                           {"Lambertian", "Metal", "Dielectric"}, MAX_DEPTH))

RECURSIVE SampleSum(_, _, _)
SampleSum(i, j, n) ==
    IF n = 0 THEN <<0, 0, 0>>
    ELSE LET c == SampleColor(i, j, n - 1)
             rest == SampleSum(i, j, n - 1)
         IN  <<rest[1] + c[1], rest[2] + c[2], rest[3] + c[3]>>

\* C9: the accumulator of a pixel is the sum, from black, of the ray_color
\* results of its own samples so far, each traced with depth MAX_DEPTH; a
\* task returns with exactly SAMPLES_PER_PIXEL of them; world and camera
\* stay as built; and a row is written only once all its tasks have
\* returned, with the final sums.
C9_LocalAccumulators ==
    /\ world = {"Lambertian", "Metal", "Dielectric"}
    /\ pc # "loop" => cam = [angle |-> frame]
    /\ pc \in {"pixels", "write"} =>
           \A i \in Columns :
               /\ tasks[i].n \in 0..SAMPLES_PER_PIXEL
               /\ tasks[i].st \in {"running", "done"} =>
                      tasks[i].pixel_color = SampleSum(i, Rows[row], tasks[i].n)
               /\ tasks[i].n > 0 => tasks[i].depth = MAX_DEPTH
               /\ tasks[i].st = "done" => tasks[i].n = SAMPLES_PER_PIXEL
    /\ pc = "write" =>
           /\ Len(pixel_colors) = IMAGE_WIDTH
           /\ \A i \in Columns :
                  /\ tasks[i].st = "done"
                  /\ pixel_colors[i + 1].filled
                  /\ pixel_colors[i + 1].color =
                         SampleSum(i, Rows[row], SAMPLES_PER_PIXEL)

\* C9 witness: a row is being written whose pixels got all their samples
\* while other tasks of the row were still running.
C9_Witness ==
    /\ pc = "write"
    /\ wi = 1
    /\ \A i \in Columns : tasks[i].n = SAMPLES_PER_PIXEL
    /\ \E i \in Columns : tasks[i].pixel_color # <<0, 0, 0>>
    /\ tasks[0].pixel_color # tasks[1].pixel_color

\* C10 as stated: every (u, v) handed to get_ray lies in [0,1] x [0,1].
C10_UVInUnitSquare ==
    \A i \in Columns :
        tasks[i].n > 0 =>
            /\ 0 <= tasks[i].u[1] /\ tasks[i].u[1] <= tasks[i].u[2]
            /\ 0 <= tasks[i].v[1] /\ tasks[i].v[1] <= tasks[i].v[2]

=============================================================================
